---- MODULE Spec2Model ----
(***************************************************************************)
(* A model of the initq package: the InitQ of initQItem records, Add, and  *)
(* the resolve loop shared by Process and TryProcess (InitQ.process).      *)
(*                                                                         *)
(* One call of process is modelled at the granularity of its loops: the    *)
(* call itself (the nil/addErr/label checks up to the first pass), one     *)
(* Visit per iteration of the inner range loop, and one EndPass per        *)
(* iteration of the outer loop (which also holds the code that follows     *)
(* the loop when the pass budget is exhausted).  The code is synchronous   *)
(* and non-reentrant, so no other operation interleaves with a call.       *)
(***************************************************************************)
EXTENDS Integers, Sequences, FiniteSets, TLC

(***************************************************************************)
(* Bounds of the model.                                                    *)
(***************************************************************************)
\* The longest queue Add builds.
MaxQ == 3
\* The longest dependency list given to Add.
MaxDeps == 1
\* The longest queue built when Add is tried with any input, valid or not
\* (with two task labels a longer queue only repeats a label once more).
MaxQAny == 2
\* The longest list of labels a QUnresolvable is constructed from directly.
MaxUnsat == 2
\* Records in each of two InitQ values used side by side (SpecTwo).
MaxQTwo == 1

\* The task labels Add is called with when any input is tried; "" is the
\* empty label Add rejects.
Labels == {"a", "b"}
Names == Labels \cup {""}
\* A misspelt label (labels are compared case-sensitively): it is given as
\* a dependency and no task is registered under it.
Misspelt == "A"

\* The labels of a well-formed registration: the k-th task registered is
\* given the k-th of these (labels are interchangeable, so this fixes no
\* more than their names); a dependency may name any of the first MaxQ.
LabelSeq == <<"a", "b", "c", "d", "e", "f">>
RunLabels == {LabelSeq[i] : i \in 1..MaxQ}
LabelIx(l) == CHOOSE i \in 1..Len(LabelSeq) : LabelSeq[i] = l

(***************************************************************************)
(* ReqResult.go: the enumeration of results / record states.               *)
(***************************************************************************)
UnRun == 0
Satisfied == 1
TryAgain == 2
Stop == 3
ReqResult == {UnRun, Satisfied, TryAgain, Stop}

(***************************************************************************)
(* QFunc values.  NilFunc is the nil function reference.  Opaque is any    *)
(* caller-supplied closure: each invocation may return any ReqResult.      *)
(* The remaining ones are the coredata methods of the package's test,      *)
(* which sense their prerequisite through the shared coredata flags.       *)
(***************************************************************************)
NilFunc == "nil"
Opaque == "func"
\* The test's closure func() ReqResult { return Satisfied }.
ReturnSatisfied == "return Satisfied"
\* The test's closure func() ReqResult { return TryAgain }.
ReturnTryAgain == "return TryAgain"
\* The closures whose result is the same at every invocation.
FixedClosures == {ReturnSatisfied, ReturnTryAgain}
CoreMethods == {"ParseCommandLIne", "ReadConfigFile", "SetupDBConnection",
                "SetupServer", "StartScheduler"}

\* coredata: the set of its boolean fields that are true.
CoreFlags == {"Cmdl", "Conf", "Data", "Serv", "Schd"}

\* The flag a coredata method waits for ("" when it waits for nothing).
CoreNeeds(f) ==
    CASE f = "ReadConfigFile" -> "Cmdl"
      [] f = "SetupDBConnection" -> "Conf"
      [] f = "SetupServer" -> "Data"
      [] f = "StartScheduler" -> "Serv"
      [] OTHER -> ""

\* The flag a coredata method sets when it completes ("" when it sets none:
\* SetupServer leaves Serv unset on purpose).
CoreSets(f) ==
    CASE f = "ParseCommandLIne" -> "Cmdl"
      [] f = "ReadConfigFile" -> "Conf"
      [] f = "SetupDBConnection" -> "Data"
      [] f = "StartScheduler" -> "Schd"
      [] OTHER -> ""

\* The possible outcomes of one invocation f(): the value returned and the
\* coredata flags afterwards.
Invoke(f, cd) ==
    IF f \in CoreMethods
    THEN IF CoreNeeds(f) # "" /\ CoreNeeds(f) \notin cd
         THEN {[ret |-> TryAgain, cd |-> cd]}
         ELSE {[ret |-> Satisfied,
                cd |-> IF CoreSets(f) = "" THEN cd ELSE cd \cup {CoreSets(f)}]}
    ELSE IF f = ReturnSatisfied
    THEN {[ret |-> Satisfied, cd |-> cd]}
    ELSE IF f = ReturnTryAgain
    THEN {[ret |-> TryAgain, cd |-> cd]}
    ELSE {[ret |-> r, cd |-> cd] : r \in ReqResult}

(***************************************************************************)
(* Messages and error values.  A formatted message is kept as its format   *)
(* and its arguments.                                                      *)
(***************************************************************************)
Msg(text, name, dep) == [text |-> text, name |-> name, dep |-> dep, list |-> <<>>]
MsgList(text, list) == [text |-> text, name |-> "", dep |-> "", list |-> list]
NoMsg == Msg("", "", "")

ErrVal(type, msg, unsat) == [type |-> type, msg |-> msg, unsat |-> unsat]
Nil == ErrVal("nil", NoMsg, <<>>)
ErrQStopped == ErrVal("ErrQStopped", NoMsg, <<>>)
ErrQUnsolvable == ErrVal("ErrQUnsolvable", NoMsg, <<>>)
Errorf(msg) == ErrVal("errorString", msg, <<>>)
newQUnresolvable(remains) == ErrVal("QUnresolvable", NoMsg, remains)

VARIABLES
    q,                   \* InitQ.q: the sequence of initQItem records
    addErr,              \* InitQ.addErr: NoMsg when empty
    BehaveUnresolvIsErr, \* the package-level behaviour toggle
    cd,                  \* the coredata the test's methods share
    pc,                  \* "idle", "pass" (inside process), "returned", "halted"
    unsatIsError,        \* process's parameter
    passes,              \* process's pass counter
    passSatisfied,       \* process's local `satisfied`
    idx,                 \* position of the inner range loop (1-based)
    err,                 \* what the last call returned
    fatal,               \* the message of the log.Fatal that halted
    invoked,             \* history: index of the record whose f the last step invoked, else 0
    ran,                 \* history: indices of the records whose f the current call has invoked
    calls,               \* history: per record, the invocations in the current call of a closure
                         \* of fixed result (not kept for other functions)
    everDone,            \* history: indices of the records whose f has returned Satisfied
    lastAdd,             \* history: the arguments of the Add call the last step made, else NoAdd
    heap,                \* the backing arrays of the []string slices, by address (1-based)
    given,               \* address of the slice passed to newQUnresolvable, 0 before
    qur,                 \* address of the constructed error's unsat slice, 0 before
    tasks,               \* address of the slice UnresolvedTasks last returned, 0 before
    made,                \* history: the labels of the given slice when the error was constructed
    other                \* a second InitQ of the program, with the call on it if one is under way

vars == <<q, addErr, BehaveUnresolvIsErr, cd, pc, unsatIsError, passes,
          passSatisfied, idx, err, fatal, invoked, ran, calls, everDone, lastAdd,
          heap, given, qur, tasks, made, other>>

\* The variables of an InitQ and of a call on it.
queueVars == <<q, addErr, BehaveUnresolvIsErr, cd, pc, unsatIsError, passes,
               passSatisfied, idx, err, fatal, invoked, ran, calls, everDone, lastAdd>>

\* The variables of a QUnresolvable constructed on its own and of the
\* slices around it.
sliceVars == <<heap, given, qur, tasks, made>>

qlen == Len(q)

\* Mutant: a dependency label given twice in a row is stored once.
newInitQItem_deduped(name, f, deps) ==
    [f |-> f, name |-> name, state |-> UnRun,
     deps |-> IF Len(deps) >= 2 /\ deps[1] = deps[2] THEN Tail(deps) ELSE deps]

\* newInitQItem
newInitQItem(name, f, deps) ==
    [f |-> f, name |-> name, state |-> UnRun, deps |-> deps]

\* NewInitQ: an empty InitQ with no call on it, the id-th the program makes.
NewInitQ(id) ==
    [id |-> id, q |-> <<>>, addErr |-> NoMsg, pc |-> "idle",
     unsatIsError |-> FALSE, passes |-> 0, passSatisfied |-> TRUE, idx |-> 1,
     err |-> Nil, ran |-> {}, calls |-> <<>>, everDone |-> {}]

\* The last step was not a call of Add.
NoAdd == [name |-> "", f |-> NilFunc, deps |-> <<>>, called |-> FALSE]

Init ==
    /\ q = <<>>
    /\ addErr = NoMsg
    /\ BehaveUnresolvIsErr = FALSE
    /\ cd = {}
    /\ pc = "idle"
    /\ unsatIsError = FALSE
    /\ passes = 0
    /\ passSatisfied = TRUE
    /\ idx = 1
    /\ err = Nil
    /\ fatal = NoMsg
    /\ invoked = 0
    /\ ran = {}
    /\ calls = <<>>
    /\ everDone = {}
    /\ lastAdd = NoAdd
    /\ heap = <<>>
    /\ given = 0
    /\ qur = 0
    /\ tasks = 0
    /\ made = <<>>
    /\ other = NewInitQ(2)

\* The caller is between calls (a returned call's result has been seen).
AtCaller == pc \in {"idle", "returned"}

\* Between calls process's locals do not exist: they are kept at their
\* initial values once the caller has moved on from a returned call.
ForgetCall ==
    /\ unsatIsError' = FALSE
    /\ passes' = 0
    /\ passSatisfied' = TRUE
    /\ idx' = 1
    /\ err' = Nil
    /\ ran' = {}
    /\ calls' = <<>>

(***************************************************************************)
(* log.Fatal: the process exits.                                           *)
(***************************************************************************)
Fatal(msg) ==
    /\ pc' = "halted"
    /\ fatal' = msg

\* A call of process returns e to the caller.
Return(e) ==
    /\ pc' = "returned"
    /\ err' = e
    /\ fatal' = fatal

\* Mutant: the defect is returned as an error whatever the toggle is.
Defect_returned(msg) == Return(Errorf(msg))

\* The assert-or-error idiom: return the message as a plain error when the
\* toggle is set, log.Fatal otherwise.
Defect(msg) ==
    IF BehaveUnresolvIsErr
    THEN Return(Errorf(msg))
    ELSE Fatal(msg) /\ err' = err

(***************************************************************************)
(* The behaviour toggle is a package variable the caller assigns.          *)
(***************************************************************************)
SetBehaviour ==
    /\ AtCaller
    /\ BehaveUnresolvIsErr' = ~BehaveUnresolvIsErr
    /\ pc' = "idle"
    /\ invoked' = 0
    /\ lastAdd' = NoAdd
    /\ ForgetCall
    /\ UNCHANGED <<q, addErr, cd, fatal, everDone, sliceVars, other>>

(***************************************************************************)
(* InitQ.Add                                                               *)
(***************************************************************************)
\* Mutant: Add does not look for the task's own label among its dependencies.
AddDefect_selfAllowed(name, f, deps) ==
    IF name = "" THEN Msg("Add called with an empty name label.", "", "")
    ELSE IF f = NilFunc THEN Msg("Add(%s) called with a nil function.", name, "")
    ELSE NoMsg

\* Mutant: Add does not look at the function.
AddDefect_nilAllowed(name, f, deps) ==
    IF name = "" THEN Msg("Add called with an empty name label.", "", "")
    ELSE IF \E k \in 1..Len(deps) : deps[k] = name
         THEN Msg("Add(%s) called with a self-referencing dependency.", name, "")
    ELSE NoMsg

\* The defect Add finds in its input, NoMsg when it accepts.
AddDefect(name, f, deps) ==
    IF name = "" THEN Msg("Add called with an empty name label.", "", "")
    ELSE IF f = NilFunc THEN Msg("Add(%s) called with a nil function.", name, "")
    ELSE IF \E k \in 1..Len(deps) : deps[k] = name
         THEN Msg("Add(%s) called with a self-referencing dependency.", name, "")
    ELSE NoMsg

\* Mutant: a rejected Add records the defect and returns whatever the toggle is.
Add_recordsOnly(name, f, deps) ==
    /\ AtCaller
    /\ invoked' = 0
    /\ lastAdd' = [name |-> name, f |-> f, deps |-> deps, called |-> TRUE]
    /\ LET defect == AddDefect(name, f, deps) IN
       IF defect # NoMsg
       THEN /\ addErr' = defect
            /\ q' = q
            /\ pc' = "idle"
            /\ fatal' = fatal
       ELSE /\ q' = Append(q, newInitQItem(name, f, deps))
            /\ pc' = "idle"
            /\ UNCHANGED <<addErr, fatal>>
    /\ ForgetCall
    /\ UNCHANGED <<BehaveUnresolvIsErr, cd, everDone, sliceVars, other>>

\* Mutant: a rejected Add halts the process whatever the toggle is.
Add_haltsAlways(name, f, deps) ==
    /\ AtCaller
    /\ invoked' = 0
    /\ lastAdd' = [name |-> name, f |-> f, deps |-> deps, called |-> TRUE]
    /\ LET defect == AddDefect(name, f, deps) IN
       IF defect # NoMsg
       THEN /\ addErr' = defect
            /\ q' = q
            /\ Fatal(IF defect.text = "Add(%s) called with a self-referencing dependency."
                      THEN Msg("Unable to add a self-referencing dependency.", "", "")
                      ELSE defect)
       ELSE /\ q' = Append(q, newInitQItem(name, f, deps))
            /\ pc' = "idle"
            /\ UNCHANGED <<addErr, fatal>>
    /\ ForgetCall
    /\ UNCHANGED <<BehaveUnresolvIsErr, cd, everDone, sliceVars, other>>

Add(name, f, deps) ==
    /\ AtCaller
    /\ invoked' = 0
    /\ lastAdd' = [name |-> name, f |-> f, deps |-> deps, called |-> TRUE]
    /\ LET defect == AddDefect(name, f, deps) IN
       IF defect # NoMsg
       THEN /\ addErr' = defect
            /\ q' = q
            /\ IF BehaveUnresolvIsErr
               THEN pc' = "idle" /\ fatal' = fatal
               ELSE Fatal(IF defect.text = "Add(%s) called with a self-referencing dependency."
                          THEN Msg("Unable to add a self-referencing dependency.", "", "")
                          ELSE defect)
       ELSE /\ q' = Append(q, newInitQItem(name, f, deps))
            /\ pc' = "idle"
            /\ UNCHANGED <<addErr, fatal>>
    /\ ForgetCall
    /\ UNCHANGED <<BehaveUnresolvIsErr, cd, everDone, sliceVars, other>>

\* The dependency lists Add is given: lists of task labels and of the
\* misspelt label, and a task label given twice.
DepLists ==
    UNION {[1..n -> Labels \cup {Misspelt}] : n \in 0..MaxDeps}
        \cup {<<l, l>> : l \in Labels}

\* Add with any input, valid or not.
AddTask ==
    /\ Len(q) < MaxQAny
    /\ \E name \in Names, f \in {NilFunc, Opaque}, deps \in DepLists :
          Add(name, f, deps)

\* The dependency lists of a well-formed registration of label name: other
\* labels, each once, in label order.
RunDepLists(name) ==
    {deps \in UNION {[1..n -> RunLabels \ {name}] : n \in 0..MaxDeps} :
        \A j, k \in 1..Len(deps) : j < k => LabelIx(deps[j]) < LabelIx(deps[k])}

\* A well-formed registration: a fresh label, a function, dependencies on
\* other labels (registered earlier or later).  A queue is filled with
\* functions of one sort: any closures, or closures that return Satisfied.
AddFresh ==
    /\ Len(q) < MaxQ
    /\ \E f \in {Opaque, ReturnSatisfied}, deps \in RunDepLists(LabelSeq[Len(q) + 1]) :
          /\ \A i \in 1..Len(q) : q[i].f = f
          /\ Add(LabelSeq[Len(q) + 1], f, deps)

\* The labels the test registers the coredata methods under.
CoreLabel(f) ==
    CASE f = "ParseCommandLIne" -> "cmdline"
      [] f = "ReadConfigFile" -> "config"
      [] f = "SetupDBConnection" -> "dbconn"
      [] f = "SetupServer" -> "server"
      [] OTHER -> "scheduler"

\* The test's registrations of coredata methods, in any order.
AddCore ==
    /\ \A i \in 1..Len(q) : q[i].f \in CoreMethods
    /\ \E f \in CoreMethods :
          /\ \A i \in 1..Len(q) : q[i].f # f
          /\ Add(CoreLabel(f), f, <<>>)

(***************************************************************************)
(* InitQ.satisfied and initQItem.run                                       *)
(***************************************************************************)
\* Mutant: a requirement counts as satisfied as soon as it has been tried.
satisfied_tried(name) ==
    \E i \in 1..Len(q) : q[i].name = name /\ q[i].state # UnRun

\* satisfied reports if a named requirement has been satisfied.
satisfied(name) ==
    \E i \in 1..Len(q) : q[i].name = name /\ q[i].state = Satisfied

\* Mutant: the dependency check is skipped.
allDepsGood_unchecked(rqi) == TRUE

\* The dependency check at the top of a visit.
allDepsGood(rqi) ==
    \A k \in 1..Len(rqi.deps) : satisfied(rqi.deps[k])

\* Mutant: run calls the function whatever the state.
ShouldRun_always(rqi) == TRUE

\* Mutant: run calls the function only the first time.
ShouldRun_onlyUnRun(rqi) == rqi.state = UnRun

\* Mutant: run calls the function again after it has returned Stop.
ShouldRun_retriesStop(rqi) == rqi.state \in {TryAgain, UnRun, Stop}

\* run's guard: the function is called only from TryAgain or UnRun.
ShouldRun(rqi) ==
    rqi.state = TryAgain \/ rqi.state = UnRun

(***************************************************************************)
(* InitQ.process: the checks before the first pass.                        *)
(***************************************************************************)
Min(S) == CHOOSE x \in S : \A y \in S : x <= y

\* Mutant: the scan for duplicates stops before the last record.
DuplicateAt_lastSkipped ==
    LET dups == {i \in 1..(Len(q) - 1) : \E j \in 1..(i - 1) : q[j].name = q[i].name}
    IN IF dups = {} THEN 0 ELSE Min(dups)

\* Mutant: a label carried by a task that has been run is not looked for.
DuplicateAt_runSkipped ==
    LET dups == {i \in 1..Len(q) :
                   \E j \in 1..(i - 1) : q[j].name = q[i].name /\ q[j].state = UnRun}
    IN IF dups = {} THEN 0 ELSE Min(dups)

\* Index of the first task whose label an earlier task carries, 0 if none.
DuplicateAt ==
    LET dups == {i \in 1..Len(q) : \E j \in 1..(i - 1) : q[j].name = q[i].name}
    IN IF dups = {} THEN 0 ELSE Min(dups)

\* validLabels after the first loop.
validLabels == {q[i].name : i \in 1..Len(q)}

\* Mutant: the dependency labels are not validated.
DanglingAt_none == <<0, 0>>

\* <<task, dep>> positions of the first dependency naming no task, <<0, 0>> if none.
DanglingAt ==
    LET bad == {i \in 1..Len(q) : \E k \in 1..Len(q[i].deps) : q[i].deps[k] \notin validLabels}
    IN IF bad = {} THEN <<0, 0>>
       ELSE LET i == Min(bad)
            IN <<i, Min({k \in 1..Len(q[i].deps) : q[i].deps[k] \notin validLabels})>>

\* Mutant: the outer loop gives up one pass before the queue's length.
MorePasses_short(p) == p < qlen - 1

\* Mutant: the outer loop has no bound.
MorePasses_unbounded(p) == TRUE

\* The outer loop's condition.
MorePasses(p) == p <= qlen

\* Mutant: a recorded registration defect does not stop the call.
process_addErrIgnored(unsat) ==
    /\ AtCaller
    /\ unsatIsError' = unsat
    /\ invoked' = 0
    /\ lastAdd' = NoAdd
    /\ ran' = {}
    /\ calls' = [i \in 1..Len(q) |-> 0]
    /\ passes' = 0
    /\ passSatisfied' = TRUE
    /\ idx' = 1
    /\ IF DuplicateAt # 0
       THEN Defect(Msg("The %s task label was used more than once.",
                       q[DuplicateAt].name, ""))
       ELSE IF DanglingAt # <<0, 0>>
       THEN Defect(Msg("Task %s has dependency %s that does not match any existing task.",
                       q[DanglingAt[1]].name, q[DanglingAt[1]].deps[DanglingAt[2]]))
       ELSE /\ pc' = "pass"
            /\ UNCHANGED <<err, fatal>>
    /\ UNCHANGED <<q, addErr, BehaveUnresolvIsErr, cd, everDone, sliceVars, other>>

\* Mutant: a pass starts out unsatisfied, so an empty pass converges nothing.
process_startsUnsatisfied(unsat) ==
    /\ AtCaller
    /\ unsatIsError' = unsat
    /\ invoked' = 0
    /\ lastAdd' = NoAdd
    /\ ran' = {}
    /\ calls' = [i \in 1..Len(q) |-> 0]
    /\ passes' = 0
    /\ passSatisfied' = FALSE
    /\ idx' = 1
    /\ IF addErr # NoMsg
       THEN Return(Errorf(addErr))
       ELSE IF DuplicateAt # 0
       THEN Defect(Msg("The %s task label was used more than once.",
                       q[DuplicateAt].name, ""))
       ELSE IF DanglingAt # <<0, 0>>
       THEN Defect(Msg("Task %s has dependency %s that does not match any existing task.",
                       q[DanglingAt[1]].name, q[DanglingAt[1]].deps[DanglingAt[2]]))
       ELSE /\ pc' = "pass"
            /\ UNCHANGED <<err, fatal>>
    /\ UNCHANGED <<q, addErr, BehaveUnresolvIsErr, cd, everDone, sliceVars, other>>

\* Mutant: TryProcess returns a label defect as an error instead of halting.
process_tryReturns(unsat) ==
    /\ AtCaller
    /\ unsatIsError' = unsat
    /\ invoked' = 0
    /\ lastAdd' = NoAdd
    /\ ran' = {}
    /\ calls' = [i \in 1..Len(q) |-> 0]
    /\ passes' = 0
    /\ passSatisfied' = TRUE
    /\ idx' = 1
    /\ IF addErr # NoMsg
       THEN Return(Errorf(addErr))
       ELSE IF DuplicateAt # 0
       THEN IF unsat
            THEN Return(Errorf(Msg("The %s task label was used more than once.",
                                   q[DuplicateAt].name, "")))
            ELSE Defect(Msg("The %s task label was used more than once.",
                            q[DuplicateAt].name, ""))
       ELSE IF DanglingAt # <<0, 0>>
       THEN IF unsat
            THEN Return(Errorf(Msg("Task %s has dependency %s that does not match any existing task.",
                                   q[DanglingAt[1]].name, q[DanglingAt[1]].deps[DanglingAt[2]])))
            ELSE Defect(Msg("Task %s has dependency %s that does not match any existing task.",
                            q[DanglingAt[1]].name, q[DanglingAt[1]].deps[DanglingAt[2]]))
       ELSE /\ pc' = "pass"
            /\ UNCHANGED <<err, fatal>>
    /\ UNCHANGED <<q, addErr, BehaveUnresolvIsErr, cd, everDone, sliceVars, other>>

\* Mutant: a call that fails validation puts every record back to UnRun.
process_resetsOnFailure(unsat) ==
    /\ AtCaller
    /\ unsatIsError' = unsat
    /\ invoked' = 0
    /\ lastAdd' = NoAdd
    /\ ran' = {}
    /\ calls' = [i \in 1..Len(q) |-> 0]
    /\ passes' = 0
    /\ passSatisfied' = TRUE
    /\ idx' = 1
    /\ IF addErr # NoMsg
       THEN Return(Errorf(addErr))
       ELSE IF DuplicateAt # 0
       THEN Defect(Msg("The %s task label was used more than once.",
                       q[DuplicateAt].name, ""))
       ELSE IF DanglingAt # <<0, 0>>
       THEN Defect(Msg("Task %s has dependency %s that does not match any existing task.",
                       q[DanglingAt[1]].name, q[DanglingAt[1]].deps[DanglingAt[2]]))
       ELSE /\ pc' = "pass"
            /\ UNCHANGED <<err, fatal>>
    /\ q' = IF addErr # NoMsg \/ DuplicateAt # 0 \/ DanglingAt # <<0, 0>>
            THEN [i \in 1..Len(q) |-> [q[i] EXCEPT !.state = UnRun]]
            ELSE q
    /\ UNCHANGED <<addErr, BehaveUnresolvIsErr, cd, everDone, sliceVars, other>>

process(unsat) ==
    /\ AtCaller
    /\ unsatIsError' = unsat
    /\ invoked' = 0
    /\ lastAdd' = NoAdd
    /\ ran' = {}
    /\ calls' = [i \in 1..Len(q) |-> 0]
    /\ passes' = 0
    /\ passSatisfied' = TRUE
    /\ idx' = 1
    /\ IF addErr # NoMsg
       THEN Return(Errorf(addErr))
       ELSE IF DuplicateAt # 0
       THEN Defect(Msg("The %s task label was used more than once.",
                       q[DuplicateAt].name, ""))
       ELSE IF DanglingAt # <<0, 0>>
       THEN Defect(Msg("Task %s has dependency %s that does not match any existing task.",
                       q[DanglingAt[1]].name, q[DanglingAt[1]].deps[DanglingAt[2]]))
       ELSE /\ pc' = "pass"
            /\ UNCHANGED <<err, fatal>>
    /\ UNCHANGED <<q, addErr, BehaveUnresolvIsErr, cd, everDone, sliceVars, other>>

Process == process(FALSE)

TryProcess == process(TRUE)

(***************************************************************************)
(* InitQ.process: one iteration of the inner loop (one record visited).    *)
(***************************************************************************)
\* Mutant: Stop is handled like TryAgain and the pass goes on.
Dispatch_stopGoesOn(rqi, r) ==
    CASE r = UnRun ->
            /\ Defect(Msg("Failed to process task %s.", rqi.name, ""))
            /\ UNCHANGED <<passSatisfied, idx>>
      [] r = TryAgain \/ r = Stop ->
            /\ passSatisfied' = FALSE
            /\ idx' = idx + 1
            /\ UNCHANGED <<pc, err, fatal>>
      [] OTHER ->
            /\ idx' = idx + 1
            /\ UNCHANGED <<passSatisfied, pc, err, fatal>>

\* Mutant: TryAgain does not clear the pass's satisfied flag.
Dispatch_retryIgnored(rqi, r) ==
    CASE r = UnRun ->
            /\ Defect(Msg("Failed to process task %s.", rqi.name, ""))
            /\ UNCHANGED <<passSatisfied, idx>>
      [] r = Stop ->
            /\ Return(ErrQStopped)
            /\ UNCHANGED <<passSatisfied, idx>>
      [] OTHER ->
            /\ idx' = idx + 1
            /\ UNCHANGED <<passSatisfied, pc, err, fatal>>

\* Mutant: Stop is an assertion like the other failures of a pass.
Dispatch_stopAsserts(rqi, r) ==
    CASE r = UnRun \/ r = Stop ->
            /\ Defect(Msg("Failed to process task %s.", rqi.name, ""))
            /\ UNCHANGED <<passSatisfied, idx>>
      [] r = TryAgain ->
            /\ passSatisfied' = FALSE
            /\ idx' = idx + 1
            /\ UNCHANGED <<pc, err, fatal>>
      [] OTHER ->
            /\ idx' = idx + 1
            /\ UNCHANGED <<passSatisfied, pc, err, fatal>>

\* Mutant: after TryAgain the same record is visited again at once.
Dispatch_retryInPlace(rqi, r) ==
    CASE r = UnRun ->
            /\ Defect(Msg("Failed to process task %s.", rqi.name, ""))
            /\ UNCHANGED <<passSatisfied, idx>>
      [] r = TryAgain ->
            /\ passSatisfied' = FALSE
            /\ idx' = idx
            /\ UNCHANGED <<pc, err, fatal>>
      [] r = Stop ->
            /\ Return(ErrQStopped)
            /\ UNCHANGED <<passSatisfied, idx>>
      [] OTHER ->
            /\ idx' = idx + 1
            /\ UNCHANGED <<passSatisfied, pc, err, fatal>>

\* Mutant: a record that reports UnRun is retried in the next pass.
Dispatch_unrunRetries(rqi, r) ==
    CASE r \in {UnRun, TryAgain} ->
            /\ passSatisfied' = FALSE
            /\ idx' = idx + 1
            /\ UNCHANGED <<pc, err, fatal>>
      [] r = Stop ->
            /\ Return(ErrQStopped)
            /\ UNCHANGED <<passSatisfied, idx>>
      [] OTHER ->
            /\ idx' = idx + 1
            /\ UNCHANGED <<passSatisfied, pc, err, fatal>>

\* The switch on run's result.
Dispatch(rqi, r) ==
    CASE r = UnRun ->
            /\ Defect(Msg("Failed to process task %s.", rqi.name, ""))
            /\ UNCHANGED <<passSatisfied, idx>>
      [] r = TryAgain ->
            /\ passSatisfied' = FALSE
            /\ idx' = idx + 1
            /\ UNCHANGED <<pc, err, fatal>>
      [] r = Stop ->
            /\ Return(ErrQStopped)
            /\ UNCHANGED <<passSatisfied, idx>>
      [] OTHER ->
            /\ idx' = idx + 1
            /\ UNCHANGED <<passSatisfied, pc, err, fatal>>

\* Mutant: a blocked record does not mark the pass as unsatisfied.
Visit_blockedKeepsFlag ==
    /\ pc = "pass"
    /\ idx <= Len(q)
    /\ LET rqi == q[idx] IN
       IF ~allDepsGood(rqi)
       THEN /\ q' = [q EXCEPT ![idx].state = TryAgain]
            /\ idx' = idx + 1
            /\ invoked' = 0
            /\ UNCHANGED <<passSatisfied, cd, pc, err, fatal, ran, calls, everDone>>
       ELSE IF ShouldRun(rqi)
       THEN \E o \in Invoke(rqi.f, cd) :
               /\ q' = [q EXCEPT ![idx].state = o.ret]
               /\ cd' = o.cd
               /\ invoked' = idx
               /\ ran' = ran \cup {idx}
               /\ calls' = IF rqi.f \in FixedClosures
                           THEN [calls EXCEPT ![idx] = @ + 1]
                           ELSE calls
               /\ everDone' = IF o.ret = Satisfied THEN everDone \cup {idx} ELSE everDone
               /\ Dispatch(rqi, o.ret)
       ELSE /\ invoked' = 0
            /\ UNCHANGED <<q, cd, ran, calls, everDone>>
            /\ Dispatch(rqi, rqi.state)
    /\ UNCHANGED <<addErr, BehaveUnresolvIsErr, unsatIsError, passes, lastAdd, sliceVars, other>>

\* Mutant: a blocked record is skipped without being marked TryAgain.
Visit_blockedKeepsState ==
    /\ pc = "pass"
    /\ idx <= Len(q)
    /\ LET rqi == q[idx] IN
       IF ~allDepsGood(rqi)
       THEN /\ passSatisfied' = FALSE
            /\ idx' = idx + 1
            /\ invoked' = 0
            /\ UNCHANGED <<q, cd, pc, err, fatal, ran, calls, everDone>>
       ELSE IF ShouldRun(rqi)
       THEN \E o \in Invoke(rqi.f, cd) :
               /\ q' = [q EXCEPT ![idx].state = o.ret]
               /\ cd' = o.cd
               /\ invoked' = idx
               /\ ran' = ran \cup {idx}
               /\ calls' = IF rqi.f \in FixedClosures
                           THEN [calls EXCEPT ![idx] = @ + 1]
                           ELSE calls
               /\ everDone' = IF o.ret = Satisfied THEN everDone \cup {idx} ELSE everDone
               /\ Dispatch(rqi, o.ret)
       ELSE /\ invoked' = 0
            /\ UNCHANGED <<q, cd, ran, calls, everDone>>
            /\ Dispatch(rqi, rqi.state)
    /\ UNCHANGED <<addErr, BehaveUnresolvIsErr, unsatIsError, passes, lastAdd, sliceVars, other>>

Visit ==
    /\ pc = "pass"
    /\ idx <= Len(q)
    /\ LET rqi == q[idx] IN
       IF ~allDepsGood(rqi)
       THEN /\ q' = [q EXCEPT ![idx].state = TryAgain]
            /\ passSatisfied' = FALSE
            /\ idx' = idx + 1
            /\ invoked' = 0
            /\ UNCHANGED <<cd, pc, err, fatal, ran, calls, everDone>>
       ELSE IF ShouldRun(rqi)
       THEN \E o \in Invoke(rqi.f, cd) :
               /\ q' = [q EXCEPT ![idx].state = o.ret]
               /\ cd' = o.cd
               /\ invoked' = idx
               /\ ran' = ran \cup {idx}
               /\ calls' = IF rqi.f \in FixedClosures
                           THEN [calls EXCEPT ![idx] = @ + 1]
                           ELSE calls
               /\ everDone' = IF o.ret = Satisfied THEN everDone \cup {idx} ELSE everDone
               /\ Dispatch(rqi, o.ret)
       ELSE /\ invoked' = 0
            /\ UNCHANGED <<q, cd, ran, calls, everDone>>
            /\ Dispatch(rqi, rqi.state)
    /\ UNCHANGED <<addErr, BehaveUnresolvIsErr, unsatIsError, passes, lastAdd, sliceVars, other>>

(***************************************************************************)
(* InitQ.process: the end of a pass, and the code after the loop.          *)
(***************************************************************************)
RECURSIVE SelectSeq2(_, _)
\* The labels, in queue order, of the first n records left in TryAgain.
SelectSeq2(n, st) ==
    IF n = 0 THEN <<>>
    ELSE IF q[n].state = st
         THEN Append(SelectSeq2(n - 1, st), q[n].name)
         ELSE SelectSeq2(n - 1, st)

\* Mutant: every record is reported.
remaining_all == [i \in 1..Len(q) |-> q[i].name]

\* Mutant: the records that were never run are collected instead.
remaining_unrun == SelectSeq2(Len(q), UnRun)

remaining == SelectSeq2(Len(q), TryAgain)

\* Mutant: TryProcess follows the toggle too and halts when it is unset.
Unresolved_followsToggle ==
    IF BehaveUnresolvIsErr = FALSE
    THEN Fatal(MsgList("run Q cannot be satisfied (%s remain)", remaining)) /\ err' = err
    ELSE IF unsatIsError
         THEN Return(newQUnresolvable(remaining))
         ELSE Return(ErrQUnsolvable)

Unresolved ==
    IF unsatIsError
    THEN Return(newQUnresolvable(remaining))
    ELSE IF BehaveUnresolvIsErr = FALSE
         THEN Fatal(MsgList("run Q cannot be satisfied (%s remain)", remaining)) /\ err' = err
         ELSE Return(ErrQUnsolvable)

EndPass ==
    /\ pc = "pass"
    /\ idx > Len(q)
    /\ passes' = passes + 1
    /\ invoked' = 0
    /\ IF passSatisfied
       THEN Return(Nil) /\ UNCHANGED <<passSatisfied, idx>>
       ELSE IF MorePasses(passes + 1)
       THEN /\ passSatisfied' = TRUE
            /\ idx' = 1
            /\ UNCHANGED <<pc, err, fatal>>
       ELSE Unresolved /\ UNCHANGED <<passSatisfied, idx>>
    /\ UNCHANGED <<q, addErr, BehaveUnresolvIsErr, cd, unsatIsError, ran, calls, everDone, lastAdd,
                 sliceVars, other>>

(***************************************************************************)
(* QUnresolvable.go, used on its own as the package's test does: a slice   *)
(* is a reference to a backing array, so an assignment shares the array    *)
(* and slices.Clone makes a new one.                                       *)
(***************************************************************************)
\* The labels of the test's lists.
UnsatLabels == {"manny", "moe", "jack"}

UnsatLists == UNION {[1..n -> UnsatLabels] : n \in 0..MaxUnsat}

\* Mutant: the direct assignment err.unsat = remains.
cloneInto_assigned(h, remains) == [heap |-> h, unsat |-> remains]

\* err.unsat = slices.Clone(remains): the heap with the new array, and the
\* new array's address.
cloneInto(h, remains) == [heap |-> Append(h, h[remains]), unsat |-> Len(h) + 1]

\* The caller makes a slice and constructs the error from it.
NewQUnresolvable ==
    /\ qur = 0
    /\ \E list \in UnsatLists :
          LET h == Append(heap, list)
              c == cloneInto(h, Len(h))
          IN /\ heap' = c.heap
             /\ given' = Len(h)
             /\ qur' = c.unsat
             /\ made' = list
    /\ UNCHANGED <<tasks, queueVars, other>>

\* Mutant: UnresolvedTasks returns the slice the error was constructed from.
unsatOf_given == given

\* unsat = qur.unsat: a reference to the error's own array.
unsatOf == qur

UnresolvedTasks ==
    /\ qur # 0
    /\ tasks' = unsatOf
    /\ UNCHANGED <<heap, given, qur, made, queueVars, other>>

\* The caller assigns an element of the slice at address a.
WriteSlice(a) ==
    /\ a # 0
    /\ \E i \in 1..Len(heap[a]), l \in UnsatLabels :
          /\ heap[a][i] # l
          /\ heap' = [heap EXCEPT ![a][i] = l]
    /\ UNCHANGED <<given, qur, tasks, made, queueVars, other>>

\* The caller changes the slice it passed at construction.
WriteGiven == WriteSlice(given)

\* The caller changes the slice UnresolvedTasks returned.
WriteTasks == WriteSlice(tasks)

NextUnsat ==
    \/ NewQUnresolvable
    \/ UnresolvedTasks
    \/ WriteGiven
    \/ WriteTasks

SpecUnsat == Init /\ [][NextUnsat]_vars

(***************************************************************************)
(* Two InitQ values in one program.  The variables q .. everDone are those *)
(* of the InitQ the program is operating on; other holds the second one.  *)
(***************************************************************************)
\* Mutant: addErr is a package variable, one for every InitQ.
Switch_sharedAddErr ==
    /\ pc # "halted"
    /\ other' = [id |-> 3 - other.id, q |-> q, addErr |-> addErr, pc |-> pc,
                 unsatIsError |-> unsatIsError, passes |-> passes,
                 passSatisfied |-> passSatisfied, idx |-> idx, err |-> err,
                 ran |-> ran, calls |-> calls, everDone |-> everDone]
    /\ q' = other.q
    /\ pc' = other.pc
    /\ unsatIsError' = other.unsatIsError
    /\ passes' = other.passes
    /\ passSatisfied' = other.passSatisfied
    /\ idx' = other.idx
    /\ err' = other.err
    /\ ran' = other.ran
    /\ calls' = other.calls
    /\ everDone' = other.everDone
    /\ invoked' = 0
    /\ lastAdd' = NoAdd
    /\ UNCHANGED <<addErr, BehaveUnresolvIsErr, cd, fatal, sliceVars>>

\* The program turns to its other InitQ: between calls, or in the middle of
\* a call when the two are used by concurrent threads.  Each InitQ has its
\* own q and addErr, each call its own locals; the toggle is the package's.
Switch ==
    /\ pc # "halted"
    /\ other' = [id |-> 3 - other.id, q |-> q, addErr |-> addErr, pc |-> pc,
                 unsatIsError |-> unsatIsError, passes |-> passes,
                 passSatisfied |-> passSatisfied, idx |-> idx, err |-> err,
                 ran |-> ran, calls |-> calls, everDone |-> everDone]
    /\ q' = other.q
    /\ addErr' = other.addErr
    /\ pc' = other.pc
    /\ unsatIsError' = other.unsatIsError
    /\ passes' = other.passes
    /\ passSatisfied' = other.passSatisfied
    /\ idx' = other.idx
    /\ err' = other.err
    /\ ran' = other.ran
    /\ calls' = other.calls
    /\ everDone' = other.everDone
    /\ invoked' = 0
    /\ lastAdd' = NoAdd
    /\ UNCHANGED <<BehaveUnresolvIsErr, cd, fatal, sliceVars>>

\* The InitQ the program is operating on.
ThisId == 3 - other.id

\* Add on either InitQ: the next fresh label or the empty label, no
\* dependencies; the first InitQ is given closures of any behaviour, the
\* second closures that return Satisfied.
AddEither ==
    /\ Len(q) < MaxQTwo
    /\ \E name \in {"", LabelSeq[Len(q) + 1]} :
          Add(name, IF ThisId = 1 THEN Opaque ELSE ReturnSatisfied, <<>>)

NextTwo ==
    \/ SetBehaviour
    \/ AddEither
    \/ Process
    \/ TryProcess
    \/ Visit
    \/ EndPass
    \/ Switch

SpecTwo == Init /\ [][NextTwo]_vars

\* A registration of one of the tests' closures of fixed result under a
\* fresh label, with dependencies on other labels.
AddClosure ==
    /\ Len(q) < MaxQ
    /\ \E f \in FixedClosures, deps \in RunDepLists(LabelSeq[Len(q) + 1]) :
          Add(LabelSeq[Len(q) + 1], f, deps)

\* Queues of closures of fixed result, the toggle left at its default.
NextCount ==
    \/ AddClosure
    \/ Process
    \/ TryProcess
    \/ Visit
    \/ EndPass

SpecCount == Init /\ [][NextCount]_vars

Next ==
    \/ SetBehaviour
    \/ AddTask
    \/ Process
    \/ TryProcess
    \/ Visit
    \/ EndPass

Spec == Init /\ [][Next]_vars

\* Well-formed registrations only: fresh labels with explicit dependencies,
\* or the test's coredata methods; the behaviour toggle is left at its default.
NextRun ==
    \/ AddFresh
    \/ AddCore
    \/ Process
    \/ TryProcess
    \/ Visit
    \/ EndPass

SpecRun == Init /\ [][NextRun]_vars

\* Any registration, valid or not, with the behaviour toggle never assigned:
\* it keeps its default throughout.
NextDefault ==
    \/ AddTask
    \/ Process
    \/ TryProcess
    \/ Visit
    \/ EndPass

SpecDefault == Init /\ [][NextDefault]_vars

(***************************************************************************)
(* Properties.                                                             *)
(***************************************************************************)
\* Record i is Done.
IsDone(i) == q[i].state = Satisfied

AllDone == \A i \in 1..Len(q) : IsDone(i)

\* Every dependency label of record i names, in the current state, a record
\* that is Done.
DepsDone(i) ==
    \A k \in 1..Len(q[i].deps) :
        \E j \in 1..Len(q) : q[j].name = q[i].deps[k] /\ q[j].state = Satisfied

\* C1 (semaphore gating): a step invokes a record's function only if, in the
\* state the step starts from, every label of the record's dependency list
\* names a record that is Done; a record with a dependency that is not Done
\* is not invoked in that visit.
C1_SemaphoreGating ==
    [][invoked' # 0 => DepsDone(invoked')]_vars

\* A record with a dependency has just been invoked while another record,
\* visited earlier in the same call, was held back and left in TryAgain.
C1_Witness ==
    /\ invoked # 0
    /\ Len(q[invoked].deps) > 0
    /\ \E j \in 1..Len(q) :
          j # invoked /\ j \notin ran /\ q[j].state = TryAgain /\ Len(q[j].deps) > 0

\* C2 (idempotent completion): once a record's function has returned
\* Satisfied no step invokes it again, in a later pass or in a later call.
C2_IdempotentCompletion ==
    [][invoked' # 0 => invoked' \notin everDone]_vars

\* In a later call, a pass has gone past a record completed by an earlier
\* call without invoking it, and has invoked another record.
C2_Witness ==
    /\ pc = "pass"
    /\ \E i \in everDone : i < idx /\ i \notin ran
    /\ ran # {}

\* Record i names record j among its dependencies.
DependsOn(i, j) == \E k \in 1..Len(q[i].deps) : q[i].deps[k] = q[j].name

\* The explicit dependencies are well formed and form a DAG: labels are
\* unique, every dependency names a record, and the records can be ranked
\* so that each depends only on records of lower rank.
ExplicitDAG ==
    /\ \A i, j \in 1..Len(q) : q[i].name = q[j].name => i = j
    /\ \A i \in 1..Len(q) : \A k \in 1..Len(q[i].deps) :
          \E j \in 1..Len(q) : q[j].name = q[i].deps[k]
    /\ \E rank \in [1..Len(q) -> 1..Len(q)] :
          \A i, j \in 1..Len(q) : DependsOn(i, j) => rank[j] < rank[i]

\* A queue of functions that return Satisfied whenever they are invoked,
\* ordered only by explicit dependencies that form a DAG.
WellBehavedExplicit ==
    /\ \A i \in 1..Len(q) : q[i].f = ReturnSatisfied
    /\ ExplicitDAG

\* A queue of coredata methods in which every flag a method waits for is
\* set by another registered method (the test's chain, in any order).
WellBehavedSensed ==
    /\ \A i \in 1..Len(q) : q[i].f \in CoreMethods /\ q[i].deps = <<>>
    /\ \A i \in 1..Len(q) :
          CoreNeeds(q[i].f) # "" =>
              \E j \in 1..Len(q) : CoreSets(q[j].f) = CoreNeeds(q[i].f)

\* C3 (order independence): a queue whose dependencies form a DAG (explicit
\* labels, or sensed through the shared coredata) and whose functions return
\* Satisfied as soon as their prerequisites are Done never halts the process,
\* and every Process/TryProcess call on it returns nil with every record
\* Done, in whatever order the records were registered.
C3_OrderIndependence ==
    (pc \in {"returned", "halted"} /\ (WellBehavedExplicit \/ WellBehavedSensed)) =>
        (pc = "returned" /\ err = Nil /\ AllDone)

\* A call has returned on three records registered in the reverse of their
\* dependency order, after the three passes that order needs.
C3_Witness ==
    /\ pc = "returned"
    /\ WellBehavedExplicit
    /\ Len(q) = 3
    /\ DependsOn(1, 2) /\ DependsOn(2, 3)
    /\ passes = 3
    /\ err = Nil

\* The same for the test's four coredata methods registered backwards.
C3_WitnessSensed ==
    /\ pc = "returned"
    /\ WellBehavedSensed
    /\ Len(q) = 4
    /\ q[1].f = "SetupServer" /\ q[4].f = "ParseCommandLIne"
    /\ passes = 4
    /\ err = Nil

\* C4 (stop short-circuits): the step in which a record's function returns
\* Stop returns ErrQStopped from the call at once: the pass stops at that
\* record (no later record is visited), no further pass is counted or run,
\* and in a call's first pass no record after the stopping one has been
\* invoked.
C4_StopShortCircuits ==
    [][(invoked' # 0 /\ q'[invoked'].state = Stop) =>
          /\ pc' = "returned"
          /\ err' = ErrQStopped
          /\ passes' = passes
          /\ idx' = invoked'
          /\ (passes = 0 => \A j \in ran' : j <= invoked')]_vars

\* [A, Stopper, C]: A was invoked and is Done, the second record stopped the
\* call in its first pass, the third was never invoked.
C4_Witness ==
    /\ pc = "returned"
    /\ err = ErrQStopped
    /\ Len(q) = 3
    /\ idx = 2
    /\ passes = 0
    /\ q[1].state = Satisfied /\ q[2].state = Stop /\ q[3].state = UnRun
    /\ ran = {1, 2}

RECURSIVE NotDoneLabels(_)
\* The labels of the first n records that are not Done, in queue order.
NotDoneLabels(n) ==
    IF n = 0 THEN <<>>
    ELSE IF IsDone(n) THEN NotDoneLabels(n - 1)
         ELSE NotDoneLabels(n - 1) \o <<q[n].name>>

\* C5 (non-convergence reporting): when TryProcess has used its whole pass
\* budget without converging it returns a QUnresolvable, and any
\* QUnresolvable returned lists exactly the labels of the records that are
\* not Done, each once, in registration order.
C5_UnresolvedReported ==
    /\ (pc = "returned" /\ unsatIsError /\ passes = Len(q) + 1 /\ err # Nil) =>
          err.type = "QUnresolvable"
    /\ (pc = "returned" /\ err.type = "QUnresolvable") =>
          err.unsat = NotDoneLabels(Len(q))

\* [good1: Done, unsat: TryAgain, good2: Done] after TryProcess ran out of
\* passes: the list is exactly the second label.
C5_Witness ==
    /\ pc = "returned"
    /\ err.type = "QUnresolvable"
    /\ unsatIsError
    /\ Len(q) = 3
    /\ q[1].state = Satisfied /\ q[2].state = TryAgain /\ q[3].state = Satisfied
    /\ q[2].deps = <<>>
    /\ err.unsat = <<q[2].name>>

\* C6 (bounded passes and termination): a call on N records completes at
\* most N+1 passes; while it runs, at most N passes are complete, the loop
\* position stays within the queue, and every step either ends the call or
\* moves the position (pass, record) strictly forward, so the call ends
\* after at most (N+1)(N+1) steps whatever the functions return.
C6_BoundedPasses ==
    /\ [](/\ passes <= Len(q) + 1
          /\ pc = "pass" => (passes <= Len(q) /\ idx \in 1..(Len(q) + 1)))
    /\ [][pc = "pass" =>
              \/ pc' # "pass"
              \/ passes' = passes + 1 /\ idx' = 1
              \/ passes' = passes /\ idx' = idx + 1]_vars

\* A call on three records has used its whole budget of four passes.
C6_Witness ==
    /\ pc = "returned"
    /\ Len(q) = 3
    /\ passes = 4
    /\ err.type = "QUnresolvable"

\* The records are a chain registered in fully reversed order: each record
\* depends on the one registered right after it, the last on none.
ReversedChain ==
    /\ Len(q) >= 1
    /\ \A i \in 1..Len(q) : q[i].f = ReturnSatisfied
    /\ \A i, j \in 1..Len(q) : q[i].name = q[j].name => i = j
    /\ \A i \in 1..(Len(q) - 1) : q[i].deps = <<q[i + 1].name>>
    /\ q[Len(q)].deps = <<>>

\* The test's coredata chain: each method waits for the flag the previous
\* one sets.
CoreChain == <<"ParseCommandLIne", "ReadConfigFile", "SetupDBConnection", "SetupServer">>

\* The first n methods of the coredata chain, registered backwards.
ReversedCoreChain ==
    /\ Len(q) \in 1..Len(CoreChain)
    /\ \A i \in 1..Len(q) : q[i].f = CoreChain[Len(q) + 1 - i] /\ q[i].deps = <<>>

\* C7 (fixed-point bound): a chain of N tasks registered in fully reversed
\* order, each completing on its first invocation after its predecessor is
\* Done, never halts the process and every call on it returns nil after at
\* most N passes.
C7_FixedPointBound ==
    (ReversedChain \/ ReversedCoreChain) =>
        /\ pc # "halted"
        /\ pc = "returned" => (err = Nil /\ AllDone /\ passes <= Len(q))

\* The test's four coredata methods registered backwards have converged,
\* and it took all four passes.
C7_Witness ==
    /\ pc = "returned"
    /\ ReversedCoreChain
    /\ Len(q) = 4
    /\ passes = 4
    /\ err = Nil

\* The same for three records chained by explicit labels.
C7_WitnessExplicit ==
    /\ pc = "returned"
    /\ ReversedChain
    /\ Len(q) = 3
    /\ passes = 3
    /\ err = Nil

\* Records i and j each name the other as a dependency.
Mutual(i, j) == i # j /\ DependsOn(i, j) /\ DependsOn(j, i)

UnsolvableText == "run Q cannot be satisfied (%s remain)"
DanglingText == "Task %s has dependency %s that does not match any existing task."

InSeq(x, seq) == \E k \in 1..Len(seq) : seq[k] = x

C9_SuccessIsConvergence ==
    pc = "returned" =>
        (err = Nil <=> (passes >= 1 /\ idx = Len(q) + 1 /\ AllDone))

\* A call on two records has converged in its second pass.
C9_Witness ==
    /\ pc = "returned"
    /\ err = Nil
    /\ Len(q) = 2
    /\ passes = 2

\* C10 (stop is always the stop error): whenever run reports Stop for the
\* record being visited, the call returns ErrQStopped in that step, from
\* Process and from TryProcess and for either value of BehaveUnresolvIsErr:
\* it neither halts the process nor yields a non-convergence error.
C10_StopIsStopError ==
    [][(pc = "pass" /\ idx <= Len(q) /\ q'[idx].state = Stop) =>
          (pc' = "returned" /\ err' = ErrQStopped)]_vars

\* Process, with the toggle at its default (where every other failure
\* halts), has returned ErrQStopped.
C10_Witness ==
    /\ pc = "returned"
    /\ err = ErrQStopped
    /\ ~unsatIsError
    /\ ~BehaveUnresolvIsErr
    /\ q[idx].state = Stop

\* The last pass of the budget has ended without converging: the step that
\* follows is the code after the outer loop.
Exhausted ==
    pc = "pass" /\ idx > Len(q) /\ ~passSatisfied /\ passes = Len(q)

C11_WitnessTry ==
    /\ pc = "returned"
    /\ unsatIsError
    /\ ~BehaveUnresolvIsErr
    /\ passes = Len(q) + 1
    /\ err.type = "QUnresolvable"

DuplicateText == "The %s task label was used more than once."
UnRunText == "Failed to process task %s."

\* A call of process has ended: it returned, or it halted the process (a
\* halt with another message is Add's).
ResolveEnded ==
    \/ pc = "returned"
    \/ pc = "halted" /\ fatal.text \in {DuplicateText, DanglingText, UnRunText, UnsolvableText}

\* The call failed: it halted, or it returned an error.
ResolveFailed ==
    pc = "halted" \/ (pc = "returned" /\ err # Nil)

\* The message of the failure, returned as a plain error or logged by the halt.
Diagnostic ==
    IF pc = "returned" THEN (IF err.type = "errorString" THEN err.msg ELSE NoMsg) ELSE fatal

\* The k-th dependency of record i names no record.
Dangles(i, k) == \A j \in 1..Len(q) : q[j].name # q[i].deps[k]

HasDangling == \E i \in 1..Len(q) : \E k \in 1..Len(q[i].deps) : Dangles(i, k)

UniqueLabels == \A i, j \in 1..Len(q) : q[i].name = q[j].name => i = j

\* The diagnostic is the dangling-dependency message and names a record and
\* a dependency label of it that names no record.
NamesMissingLabel ==
    /\ Diagnostic.text = DanglingText
    /\ \E i \in 1..Len(q) : \E k \in 1..Len(q[i].deps) :
          Dangles(i, k) /\ Diagnostic.name = q[i].name /\ Diagnostic.dep = q[i].deps[k]

\* C12 as stated: whenever a call ends on a queue with a dangling dependency
\* it has failed before any pass, invoked nothing, and its diagnostic names
\* the missing label.  Violated: a registration defect recorded earlier, or
\* a duplicated label, is reported first and names no missing label.
C12_Original ==
    (HasDangling /\ ResolveEnded) =>
        (ResolveFailed /\ passes = 0 /\ ran = {} /\ NamesMissingLabel)

\* C12 (dangling dependency rejection), amended: a queue with a dangling
\* dependency never enters a pass; every call on it fails in the checks
\* before the first pass with no function invoked; and when no registration
\* defect is recorded and the labels are unique, the diagnostic is the
\* dangling-dependency message naming the missing label.
C12_DanglingRejected ==
    HasDangling =>
        /\ pc # "pass"
        /\ ResolveEnded => (ResolveFailed /\ passes = 0 /\ ran = {})
        /\ (ResolveEnded /\ addErr = NoMsg /\ UniqueLabels) => NamesMissingLabel

\* A call on two records, the second with a dependency that names no
\* record, has returned the dangling-dependency error.
C12_Witness ==
    /\ pc = "returned"
    /\ Len(q) = 2
    /\ q[1].deps = <<>>
    /\ Len(q[2].deps) = 1 /\ Dangles(2, 1)
    /\ err = Errorf(Msg(DanglingText, q[2].name, q[2].deps[1]))

HasDuplicate == ~UniqueLabels

\* The diagnostic is the duplicate-label message and names a label that two
\* records carry.
NamesDuplicate ==
    /\ Diagnostic.text = DuplicateText
    /\ \E i, j \in 1..Len(q) : i # j /\ q[i].name = q[j].name /\ Diagnostic.name = q[i].name

\* C13 as stated: whenever a call ends on a queue with a duplicated label it
\* has failed before any pass, invoked nothing, and its diagnostic names the
\* duplicated label.  Violated: a registration defect recorded earlier is
\* reported first.
C13_Original ==
    (HasDuplicate /\ ResolveEnded) =>
        (ResolveFailed /\ passes = 0 /\ ran = {} /\ NamesDuplicate)

\* The step is a call of Add under a label that a record of the queue
\* already carries, with a function and without a self-reference.
AddsLabelAgain ==
    /\ lastAdd'.called
    /\ \E i \in 1..Len(q) : q[i].name = lastAdd'.name
    /\ lastAdd'.f # NilFunc
    /\ \A k \in 1..Len(lastAdd'.deps) : lastAdd'.deps[k] # lastAdd'.name

\* The step appends the record Add was called with and records no defect.
AddAccepted ==
    /\ q' = Append(q, newInitQItem(lastAdd'.name, lastAdd'.f, lastAdd'.deps))
    /\ addErr' = addErr
    /\ pc' = "idle"

\* C13 (duplicate label rejection), amended: Add accepts a registration
\* under a label already in the queue; a queue with a duplicated label
\* never enters a pass; every call on it fails in the checks before the
\* first pass with no function invoked; and when no registration defect is
\* recorded, the diagnostic is the duplicate-label message naming the label.
C13_DuplicateRejected ==
    /\ [][AddsLabelAgain => AddAccepted]_vars
    /\ [](HasDuplicate =>
             /\ pc # "pass"
             /\ ResolveEnded => (ResolveFailed /\ passes = 0 /\ ran = {})
             /\ (ResolveEnded /\ addErr = NoMsg) => NamesDuplicate)

\* Two records registered under one label, and the call has returned the
\* duplicate-label error naming it.
C13_Witness ==
    /\ pc = "returned"
    /\ Len(q) = 2
    /\ q[1].name = q[2].name
    /\ q[1].deps = <<>> /\ q[2].deps = <<>>
    /\ err = Errorf(Msg(DuplicateText, q[1].name, ""))

EmptyLabelText == "Add called with an empty name label."
NilFuncText == "Add(%s) called with a nil function."
SelfRefText == "Add(%s) called with a self-referencing dependency."

\* Record i lists its own label among its dependencies.
SelfReferent(i) == \E k \in 1..Len(q[i].deps) : q[i].deps[k] = q[i].name

\* The step is a call of Add whose dependency list holds the task's own label.
AddsSelfReference ==
    /\ lastAdd'.called
    /\ \E k \in 1..Len(lastAdd'.deps) : lastAdd'.deps[k] = lastAdd'.name

\* The step leaves the queue as it is and records a defect; Add returns
\* when the toggle is set and halts the process otherwise.
AddRejected ==
    /\ q' = q
    /\ addErr' # NoMsg
    /\ pc' = IF BehaveUnresolvIsErr THEN "idle" ELSE "halted"

\* A call has returned the recorded registration defect as a plain error,
\* before any pass and with no function invoked.
ReturnedAddErr ==
    /\ pc = "returned"
    /\ err = Errorf(addErr)
    /\ passes = 0
    /\ ran = {}

\* C14 (self-reference rejection): every Add whose dependency list holds
\* the task's own label is rejected without appending a record (whatever
\* its function and whatever the queue holds); a call made while the
\* self-reference defect is the recorded one returns it before any pass
\* with no function invoked; and no record in the queue lists its own label.
C14_SelfReferenceRejected ==
    /\ [][AddsSelfReference =>
             /\ AddRejected
             /\ lastAdd'.f # NilFunc => addErr' = Msg(SelfRefText, lastAdd'.name, "")]_vars
    /\ []((pc = "returned" /\ addErr.text = SelfRefText) => ReturnedAddErr)
    /\ [](\A i \in 1..Len(q) : ~SelfReferent(i))

\* With the toggle set, a self-referencing Add was rejected, a record was
\* registered after it, and the call has returned the self-reference defect.
C14_Witness ==
    /\ pc = "returned"
    /\ BehaveUnresolvIsErr
    /\ addErr.text = SelfRefText
    /\ Len(q) >= 1
    /\ err = Errorf(Msg(SelfRefText, addErr.name, ""))
    /\ ran = {}

\* The step is a call of Add with an empty label or with a nil function.
AddsBlankOrNil ==
    /\ lastAdd'.called
    /\ (lastAdd'.name = "" \/ lastAdd'.f = NilFunc)

\* C15 (empty label, nil function): every Add with an empty label or a nil
\* function is rejected without appending a record, recording the defect of
\* the empty label (checked first) or of the nil function; a call made
\* while one of these is the recorded defect returns it before any pass
\* with no function invoked; and no record of the queue has an empty label
\* or a nil function.
C15_BlankOrNilRejected ==
    /\ [][AddsBlankOrNil =>
             /\ AddRejected
             /\ addErr' = IF lastAdd'.name = ""
                          THEN Msg(EmptyLabelText, "", "")
                          ELSE Msg(NilFuncText, lastAdd'.name, "")]_vars
    /\ []((pc = "returned" /\ addErr.text \in {EmptyLabelText, NilFuncText}) => ReturnedAddErr)
    /\ [](\A i \in 1..Len(q) : q[i].name # "" /\ q[i].f # NilFunc)

\* With the toggle set, an Add with a nil function was rejected beside an
\* accepted one, and the call has returned the nil-function defect.
C15_Witness ==
    /\ pc = "returned"
    /\ BehaveUnresolvIsErr
    /\ Len(q) >= 1
    /\ addErr.text = NilFuncText
    /\ err = Errorf(Msg(NilFuncText, addErr.name, ""))
    /\ ran = {}

\* The same for an Add with an empty label.
C15_WitnessBlank ==
    /\ pc = "returned"
    /\ BehaveUnresolvIsErr
    /\ Len(q) >= 1
    /\ err = Errorf(Msg(EmptyLabelText, "", ""))
    /\ ran = {}

\* C16 (sticky registration defect): a rejected Add (one that leaves the
\* queue as it is) records a defect; a recorded defect is never cleared, by
\* later registrations or otherwise; and while one is recorded no call
\* enters a pass or halts: every call returns, before any pass and with no
\* function invoked, a plain error carrying the recorded message, from
\* Process and TryProcess and for either value of the toggle.
C16_StickyDefect ==
    /\ [][(lastAdd'.called /\ q' = q) => addErr' # NoMsg]_vars
    /\ [][addErr # NoMsg => addErr' # NoMsg]_vars
    /\ [](addErr # NoMsg =>
             /\ pc # "pass"
             /\ ~(pc = "halted" /\ ResolveEnded)
             /\ pc = "returned" => (ReturnedAddErr /\ err.type = "errorString"))

\* An Add was rejected, two valid records were registered, the toggle was
\* put back to false, and TryProcess has returned the recorded defect with
\* both records untouched.
C16_Witness ==
    /\ pc = "returned"
    /\ unsatIsError
    /\ ~BehaveUnresolvIsErr
    /\ addErr # NoMsg
    /\ Len(q) = 2
    /\ UniqueLabels /\ ~HasDangling
    /\ q[1].state = UnRun /\ q[2].state = UnRun
    /\ err = Errorf(addErr)

\* C17 (first defect wins): once a registration defect is recorded, no
\* later step replaces it, so the defect a call returns is the one of the
\* first rejected Add.  Violated by the code: every rejecting path of Add
\* assigns addErr, so the last rejected Add's defect is the one recorded.
C17_FirstDefectWins ==
    [][addErr # NoMsg => addErr' = addErr]_vars

\* The call returned nil after one pass in which no function was invoked.
SucceededInOnePass ==
    /\ pc = "returned"
    /\ err = Nil
    /\ passes = 1
    /\ ran = {}

\* C18 as stated: every call on a queue with no records returns nil after
\* a single pass with no function invoked.  Violated: a rejected Add leaves
\* the queue without records and the call returns the recorded defect.
C18_Original ==
    (ResolveEnded /\ Len(q) = 0) => SucceededInOnePass

\* C18 (empty queue), amended: on a queue with no records and no recorded
\* registration defect, a call never halts and returns nil after a single
\* pass with no function invoked, from Process and from TryProcess and for
\* either value of the toggle.
C18_EmptyQueue ==
    (Len(q) = 0 /\ addErr = NoMsg) =>
        /\ pc # "halted"
        /\ pc = "pass" => passes = 0
        /\ pc = "returned" => SucceededInOnePass

\* TryProcess has returned nil on the empty queue.
C18_Witness ==
    /\ Len(q) = 0
    /\ unsatIsError
    /\ SucceededInOnePass

\* Process has returned nil on the empty queue.
C18_WitnessProcess ==
    /\ Len(q) = 0
    /\ ~unsatIsError
    /\ SucceededInOnePass

\* The queue is as a successful call leaves it: no defect recorded, the
\* labels valid, every record Done.
Converged ==
    /\ addErr = NoMsg
    /\ UniqueLabels
    /\ ~HasDangling
    /\ AllDone

\* C19 (resolve is idempotent on a converged queue): a call that returns
\* nil leaves the queue converged; from then on, as long as Add is not
\* called, no step changes a record or invokes a function or halts; every
\* further call, from Process or TryProcess, passes validation and returns
\* nil at the end of its first pass having invoked nothing.
C19_IdempotentResolve ==
    /\ []((pc = "returned" /\ err = Nil) => Converged)
    /\ [][(Converged /\ ~lastAdd'.called) =>
             /\ q' = q
             /\ invoked' = 0
             /\ pc' # "halted"
             /\ (AtCaller /\ pc' # "idle") => (pc' = "pass" /\ passes' = 0 /\ ran' = {})
             /\ (pc = "pass" /\ ran = {} /\ pc' # "pass") =>
                   (pc' = "returned" /\ err' = Nil /\ passes' = 1 /\ ran' = {})]_vars

\* A further call on three records that earlier calls completed has
\* returned nil after one pass without invoking any of them.
C19_Witness ==
    /\ Len(q) = 3
    /\ everDone = {1, 2, 3}
    /\ SucceededInOnePass

SelfRefFatalText == "Unable to add a self-referencing dependency."

\* C20 (Process with the toggle at its default): when BehaveUnresolvIsErr
\* is never set, Process returns only nil or ErrQStopped; every other
\* failure halts the process: a rejected Add, a duplicated or dangling
\* label (no call on such a queue enters a pass or returns), a function
\* returning UnRun, and the exhaustion of the pass budget.
C20_DefaultProcessReturns ==
    /\ []((pc = "returned" /\ ~unsatIsError) => err \in {Nil, ErrQStopped})
    /\ []((HasDuplicate \/ HasDangling) => pc \notin {"pass", "returned"})
    /\ [][(lastAdd'.called /\ q' = q) =>
             (pc' = "halted" /\ fatal'.text \in {EmptyLabelText, NilFuncText, SelfRefFatalText})]_vars
    /\ [][(invoked' # 0 /\ q'[invoked'].state = UnRun) =>
             (pc' = "halted" /\ fatal' = Msg(UnRunText, q[invoked'].name, ""))]_vars
    /\ [][(Exhausted /\ ~unsatIsError) =>
             (pc' = "halted" /\ fatal'.text = UnsolvableText)]_vars

\* Process, with the toggle never set, has halted the process in its
\* second pass because the second record's function returned UnRun.
C20_Witness ==
    /\ pc = "halted"
    /\ ~unsatIsError
    /\ ~BehaveUnresolvIsErr
    /\ Len(q) = 2
    /\ passes = 1
    /\ idx = 2
    /\ fatal = Msg(UnRunText, q[2].name, "")

\* The step is a call of Process or TryProcess (the other steps a caller
\* takes are Add, and the assignment of the toggle, which ends idle).
CallsResolve == AtCaller /\ ~lastAdd'.called /\ pc' # "idle"

\* The step is a call of Add that is rejected.
AddIsRejected == lastAdd'.called /\ q' = q

\* C21 (the toggle defaults to assertions): BehaveUnresolvIsErr starts
\* false.  While it is false a rejected Add (empty label, nil function,
\* self-reference), a call on a queue with a duplicated or dangling label,
\* and Process running out of passes each halt the process.  While it is
\* true the rejected Add returns with the defect recorded (the next call
\* returns it as an error), the call on a duplicated or dangling label
\* returns a plain error, and Process returns ErrQUnsolvable.
C21_DefaultIsAssertion ==
    /\ BehaveUnresolvIsErr = FALSE
    /\ [][AddIsRejected =>
             IF BehaveUnresolvIsErr
             THEN pc' = "idle" /\ addErr' # NoMsg /\ fatal' = fatal
             ELSE pc' = "halted"]_vars
    /\ [][(CallsResolve /\ addErr = NoMsg /\ (HasDuplicate \/ HasDangling)) =>
             IF BehaveUnresolvIsErr
             THEN /\ pc' = "returned"
                  /\ err'.type = "errorString"
                  /\ err'.msg.text \in {DuplicateText, DanglingText}
             ELSE pc' = "halted" /\ fatal'.text \in {DuplicateText, DanglingText}]_vars
    /\ [][(Exhausted /\ ~unsatIsError) =>
             IF BehaveUnresolvIsErr
             THEN pc' = "returned" /\ err' = ErrQUnsolvable
             ELSE pc' = "halted" /\ fatal'.text = UnsolvableText]_vars
    /\ []((pc = "returned" /\ addErr # NoMsg) => err = Errorf(addErr))

\* With the toggle false, a call on two records registered under one label
\* has halted the process with the duplicate-label message.
C21_Witness ==
    /\ pc = "halted"
    /\ ~BehaveUnresolvIsErr
    /\ addErr = NoMsg
    /\ Len(q) = 2
    /\ q[1].name = q[2].name
    /\ fatal = Msg(DuplicateText, q[1].name, "")

\* C22 as stated: with the toggle at its default (never set), a rejected
\* Add does not halt the process; it records the defect and returns.
\* Violated: with the toggle false Add calls log.Fatal.
C22_Original ==
    [][(AddIsRejected /\ ~BehaveUnresolvIsErr) =>
          (pc' # "halted" /\ addErr' # NoMsg)]_vars

\* C22 (rejected Add and the toggle), amended: a rejected Add halts the
\* process at once exactly when the toggle is false, which is its default,
\* logging the defect (for a self-reference, a message of its own); only
\* when the toggle has been set does it return, with the queue as it was
\* and the defect recorded for the next call to return.
C22_RejectedAddHaltsByDefault ==
    /\ BehaveUnresolvIsErr = FALSE
    /\ [][AddIsRejected =>
             /\ addErr' # NoMsg
             /\ pc' = "halted" <=> ~BehaveUnresolvIsErr
             /\ pc' = "halted" =>
                   fatal' = IF addErr'.text = SelfRefText
                            THEN Msg(SelfRefFatalText, "", "")
                            ELSE addErr'
             /\ pc' # "halted" => (pc' = "idle" /\ fatal' = fatal)]_vars
    /\ [][pc = "halted" => pc' = "halted"]_vars

\* With the toggle never set, an Add with a self-referencing dependency,
\* made after a valid one, has halted the process.
C22_Witness ==
    /\ pc = "halted"
    /\ ~BehaveUnresolvIsErr
    /\ Len(q) = 1
    /\ lastAdd.called
    /\ addErr.text = SelfRefText
    /\ fatal = Msg(SelfRefFatalText, "", "")

\* The call has declared the queue unsolvable: it returned ErrQUnsolvable or
\* a QUnresolvable, or it halted with the non-convergence diagnostic.
DeclaredUnsolvable ==
    \/ pc = "returned" /\ err.type \in {"ErrQUnsolvable", "QUnresolvable"}
    \/ pc = "halted" /\ fatal.text = UnsolvableText

\* C23 (unsolvable after exactly N passes): a queue of N records is
\* declared unsolvable when it has not been satisfied in N passes, so at
\* that point exactly N passes have been made.  Violated by the code: the
\* outer loop runs while passes <= qlen, so N+1 passes are made first.
C23_UnsolvableAfterNPasses ==
    DeclaredUnsolvable => passes = Len(q)

\* C24 as stated: whatever UnresolvedTasks returned is the sequence of
\* labels given to newQUnresolvable.  Violated: the slice returned is the
\* error's own array, so a write through a slice returned earlier changes
\* what the error holds and what the next call returns.
C24_Original ==
    tasks # 0 => heap[tasks] = made

\* C24 (QUnresolvable round-trip), amended: the error's list is held in an
\* array of its own, which the slice passed at construction does not
\* share; writes to that slice never change the error's list; each call of
\* UnresolvedTasks returns the error's list at that time; and the list is
\* the sequence given at construction until the caller writes through a
\* slice UnresolvedTasks returned.
C24_RoundTrip ==
    /\ [](qur # 0 => qur # given)
    /\ [](tasks # 0 => tasks = qur)
    /\ [][(qur # 0 /\ heap'[qur] # heap[qur]) => (tasks # 0 /\ heap'[given] = heap[given])]_vars
    /\ [][(qur # 0 /\ heap[qur] = made /\ tasks' # 0 /\ heap'[tasks'] # made) =>
             (tasks # 0 /\ heap'[tasks] # heap[tasks])]_vars
    /\ [][(qur = 0 /\ qur' # 0) => heap'[qur'] = made']_vars

\* The error was constructed from two labels, the caller then changed both
\* elements of the slice it had passed, and UnresolvedTasks has returned the
\* two labels as given.
C24_Witness ==
    /\ tasks # 0
    /\ Len(made) = 2
    /\ heap[tasks] = made
    /\ heap[given][1] # made[1]
    /\ heap[given][2] # made[2]

\* The pass is at a record that has a dependency which is not Done.
AtBlocked == pc = "pass" /\ idx <= Len(q) /\ ~DepsDone(idx)

\* C25 (pass step for a blocked record): a pass starts at the first record
\* and a visit moves it to the next one in registration order; the visit of
\* a record with a dependency that is not Done sets the record's state to
\* TryAgain, changes no other record, invokes nothing and marks the pass
\* unsatisfied; a pass so marked stays marked until it ends, and a call
\* does not return nil from it.
C25_BlockedRecord ==
    /\ [][(pc # "pass" /\ pc' = "pass") => idx' = 1]_vars
    /\ [][(pc = "pass" /\ idx <= Len(q) /\ pc' = "pass") => (idx' = idx + 1 /\ passes' = passes)]_vars
    /\ [][AtBlocked =>
             /\ q' = [q EXCEPT ![idx].state = TryAgain]
             /\ invoked' = 0
             /\ ran' = ran
             /\ passSatisfied' = FALSE
             /\ pc' = "pass"]_vars
    /\ [][(pc = "pass" /\ ~passSatisfied) =>
             /\ (pc' = "pass" /\ passes' = passes) => ~passSatisfied'
             /\ pc' = "returned" => err' # Nil]_vars

\* In a pass over three records the first, waiting for the second, was
\* left in TryAgain without being invoked; the second has been invoked and
\* is Done, and the pass is marked unsatisfied.
C25_Witness ==
    /\ pc = "pass"
    /\ Len(q) = 3
    /\ idx = 3
    /\ passes = 0
    /\ DependsOn(1, 2)
    /\ q[1].state = TryAgain /\ 1 \notin ran
    /\ q[2].state = Satisfied /\ 2 \in ran
    /\ ~passSatisfied

\* C26 (at most once per pass, at most N+1 times per call): a step invokes
\* only the function of the record the pass is at, in one of the passes
\* numbered 0..N of the call, and then leaves that record (or ends the
\* call); within a call the position (pass, record) only moves forward, so
\* no record is visited, hence invoked, twice in a pass, and over the N+1
\* passes of a call no function is invoked more than N+1 times.
C26_OncePerPass ==
    /\ [][invoked' # 0 =>
             /\ pc = "pass"
             /\ invoked' = idx
             /\ passes \in 0..Len(q)
             /\ passes' = passes
             /\ (pc' # "pass" \/ idx' = idx + 1)]_vars
    /\ [][(pc = "pass" /\ pc' = "pass") =>
             \/ passes' = passes /\ idx' = idx + 1
             \/ passes' = passes + 1 /\ idx' = 1 /\ idx = Len(q) + 1]_vars
    /\ [][(pc = "pass" /\ pc' # "pass") => pc' \in {"returned", "halted"}]_vars

\* A closure without dependencies that has answered TryAgain in each of the
\* first three passes over three records has just been invoked in the
\* fourth pass: its fourth invocation in the call.
C26_Witness ==
    /\ pc = "pass"
    /\ Len(q) = 3
    /\ passes = 3
    /\ invoked = 1
    /\ q[1].f = Opaque
    /\ q[1].deps = <<>>
    /\ 1 \notin everDone

\* The step ends the call with the failure msg, handled per the toggle.
FailsWith(msg) ==
    IF BehaveUnresolvIsErr
    THEN pc' = "returned" /\ err' = Errorf(msg) /\ fatal' = fatal
    ELSE pc' = "halted" /\ fatal' = msg

\* What a call of either entry point does up to its first pass, stated
\* without reference to the entry point.
SameCallStep ==
    /\ q' = q /\ cd' = cd /\ passes' = 0 /\ ran' = {} /\ invoked' = 0
    /\ IF addErr # NoMsg
       THEN pc' = "returned" /\ err' = Errorf(addErr)
       ELSE IF HasDuplicate
       THEN FailsWith(Msg(DuplicateText, q[DuplicateAt].name, ""))
       ELSE IF HasDangling
       THEN FailsWith(Msg(DanglingText, q[DanglingAt[1]].name,
                          q[DanglingAt[1]].deps[DanglingAt[2]]))
       ELSE pc' = "pass" /\ idx' = 1 /\ passSatisfied' = TRUE

\* What a visit does, given the state r the visited record is left in,
\* stated without reference to the entry point.
SameVisitStep ==
    LET r == q'[idx].state IN
    /\ q' = [q EXCEPT ![idx].state = r]
    /\ passes' = passes
    /\ IF ~DepsDone(idx)
       THEN /\ r = TryAgain /\ invoked' = 0
            /\ pc' = "pass" /\ idx' = idx + 1 /\ passSatisfied' = FALSE
       ELSE /\ invoked' = IF q[idx].state \in {UnRun, TryAgain} THEN idx ELSE 0
            /\ invoked' = 0 => r = q[idx].state
            /\ CASE r = Satisfied ->
                       pc' = "pass" /\ idx' = idx + 1 /\ passSatisfied' = passSatisfied
                 [] r = TryAgain ->
                       pc' = "pass" /\ idx' = idx + 1 /\ passSatisfied' = FALSE
                 [] r = Stop ->
                       pc' = "returned" /\ err' = ErrQStopped
                 [] OTHER ->
                       FailsWith(Msg(UnRunText, q[idx].name, ""))

\* What the end of a pass does when the budget is not exhausted, stated
\* without reference to the entry point.
SameEndOfPass ==
    /\ q' = q /\ cd' = cd /\ invoked' = 0 /\ passes' = passes + 1
    /\ IF passSatisfied
       THEN pc' = "returned" /\ err' = Nil
       ELSE pc' = "pass" /\ idx' = 1 /\ passSatisfied' = TRUE

\* C27 (Process and TryProcess are one algorithm): the entry point is
\* fixed by the call and kept to its end, and every step of a call other
\* than the one taken on exhaustion of the pass budget is determined by the
\* queue, the toggle and the result of the function invoked, not by the
\* entry point: the validation outcomes (either entry point halts on a
\* duplicated or dangling label when the toggle is false), the visits with
\* their invocations and state changes, and the ends of passes.  Only on
\* exhaustion do the outcomes differ.
C27_OneAlgorithm ==
    /\ [][CallsResolve => SameCallStep]_vars
    /\ [][pc = "pass" =>
             /\ unsatIsError' = unsatIsError
             /\ BehaveUnresolvIsErr' = BehaveUnresolvIsErr
             /\ idx <= Len(q) => SameVisitStep
             /\ (idx > Len(q) /\ ~Exhausted) => SameEndOfPass]_vars
    /\ [][Exhausted =>
             /\ q' = q /\ cd' = cd /\ passes' = passes + 1
             /\ unsatIsError => (pc' = "returned" /\ err' = newQUnresolvable(remaining))
             /\ ~unsatIsError => (pc' = "halted" \/ err' = ErrQUnsolvable)]_vars

\* TryProcess, with the toggle false, has halted the process on a dangling
\* dependency as Process does.
C27_Witness ==
    /\ pc = "halted"
    /\ unsatIsError
    /\ ~BehaveUnresolvIsErr
    /\ Len(q) >= 1
    /\ fatal.text = DanglingText

\* The diagnostic is one that validation produces: a recorded registration
\* defect, a duplicated label or a dangling dependency.
ValidationText ==
    {EmptyLabelText, NilFuncText, SelfRefText, DuplicateText, DanglingText}

\* C28 (validation failure leaves the queue alone): a call that returns an
\* error for a recorded registration defect, a duplicated label or a
\* dangling dependency does so in its first step, with every record (state,
\* label, dependency list and function) as it was before the call and no
\* function invoked; and a call that has returned such an error has made no
\* pass and invoked no function.
C28_ValidationNoEffect ==
    /\ [][(CallsResolve /\ (addErr # NoMsg \/ BehaveUnresolvIsErr)
                       /\ (addErr # NoMsg \/ HasDuplicate \/ HasDangling)) =>
             /\ pc' = "returned"
             /\ err'.type = "errorString"
             /\ err'.msg.text \in ValidationText
             /\ q' = q
             /\ cd' = cd
             /\ invoked' = 0
             /\ ran' = {}]_vars
    /\ []((pc = "returned" /\ Diagnostic.text \in ValidationText) =>
             ran = {} /\ invoked = 0 /\ passes = 0)

\* A call returned a dangling-dependency error on a queue whose first record
\* an earlier call had satisfied; the record is still Satisfied.
C28_Witness ==
    /\ pc = "returned"
    /\ Diagnostic.text = DanglingText
    /\ Len(q) = 2
    /\ q[1].state = Satisfied
    /\ q[2].state = UnRun
    /\ ran = {}

\* The step invokes a function that returns UnRun.
ReportsUnRun == invoked' # 0 /\ q'[invoked'].state = UnRun

\* The call has ended on a function that returned UnRun.
EndedOnUnRun == pc \in {"returned", "halted"} /\ Diagnostic.text = UnRunText

\* C29 (UnRun from a function is an internal defect): the step in which a
\* function returns UnRun ends the call, in the same pass and at the same
\* record: with the toggle true the call returns the plain error "Failed to
\* process task <label>." naming the record, with the toggle false the
\* process halts with that message.  After it no function is invoked and
\* no pass is made until a new call is made.
C29_UnRunEndsCall ==
    /\ [][ReportsUnRun =>
             /\ IF BehaveUnresolvIsErr
                THEN pc' = "returned" /\ err' = Errorf(Msg(UnRunText, q[invoked'].name, ""))
                ELSE pc' = "halted" /\ fatal' = Msg(UnRunText, q[invoked'].name, "")
             /\ passes' = passes
             /\ idx' = idx
             /\ invoked' = idx]_vars
    /\ [][EndedOnUnRun =>
             /\ invoked' = 0
             /\ ran' \subseteq ran
             /\ passes' <= passes
             /\ \A i \in 1..Len(q) : q'[i] = q[i]
             /\ pc = "halted" => pc' = "halted"]_vars

\* The first of two records returned UnRun in the first pass and the call
\* returned the error; the second record was never visited.
C29_Witness ==
    /\ pc = "returned"
    /\ Len(q) = 2
    /\ err = Errorf(Msg(UnRunText, q[1].name, ""))
    /\ invoked = 1
    /\ passes = 0
    /\ ran = {1}
    /\ UniqueLabels

\* The coredata flags that are set once the records in D are Done.
FlagsOf(D) == cd \cup ({CoreSets(q[i].f) : i \in D} \ {""})

\* The records that are Done after one more pass at best, when those in D
\* are Done: a record joins them when its dependencies name records in D
\* and its function can return Satisfied.
OneMorePass(D) ==
    D \cup {i \in 1..Len(q) :
               /\ \A k \in 1..Len(q[i].deps) :
                     \E j \in D : q[j].name = q[i].deps[k]
               /\ \E o \in Invoke(q[i].f, FlagsOf(D)) : o.ret = Satisfied}

RECURSIVE FurtherPasses(_, _)
\* The records that are Done after n more passes at best.
FurtherPasses(n, D) ==
    IF n = 0 THEN D ELSE FurtherPasses(n - 1, OneMorePass(D))

\* No number of further passes brings every record to Done: the explicit
\* dependencies hold a cycle, or some record's function never returns
\* Satisfied.  (Len(q) passes reach the closure: each pass that adds no
\* record ends it.)
Unsatisfiable ==
    FurtherPasses(Len(q), {i \in 1..Len(q) : IsDone(i)}) # 1..Len(q)

\* Every function's result is fixed by what has completed so far (the Done
\* records and the coredata), not by how often it has been invoked.
Deterministic == \A i \in 1..Len(q) : q[i].f # Opaque

\* C30 as stated: whenever a call has used its whole pass budget without
\* converging, the queue is unsatisfiable.  Violated: a closure may answer
\* TryAgain in each of the N+1 passes and Satisfied at its next invocation.
C30_Original ==
    DeclaredUnsolvable => Unsatisfiable

\* C30 (sufficiency of the N+1 bound), amended: whenever a call on a queue
\* whose functions' results are fixed by what has completed has used its
\* whole pass budget without converging, the queue is unsatisfiable: the
\* explicit dependencies hold a cycle, or some record's function would
\* never return Satisfied however many further passes were made.
C30_BoundSufficient ==
    (DeclaredUnsolvable /\ Deterministic) => Unsatisfiable

\* A call on the coredata methods without the one that sets Serv has used
\* its passes: StartScheduler would never return Satisfied.
C30_Witness ==
    /\ DeclaredUnsolvable
    /\ Len(q) = 2
    /\ ExplicitDAG
    /\ \E i \in 1..Len(q) : q[i].f = "StartScheduler" /\ q[i].state = TryAgain
    /\ \E i \in 1..Len(q) : q[i].f = "ParseCommandLIne" /\ q[i].state = Satisfied
    /\ passes = Len(q) + 1

\* What the Add calls so far have registered: the labels and dependency
\* lists of the records, in order (no state, no function result).
Registered == [i \in 1..Len(q) |-> [name |-> q[i].name, deps |-> q[i].deps]]

\* The defect validation reports for registrations reg and recorded
\* registration defect recorded, NoMsg when there is none: the recorded
\* defect, else the first label an earlier record carries, else the first
\* dependency that names no record.
ConfigDefect(reg, recorded) ==
    LET labels == {reg[i].name : i \in 1..Len(reg)}
        dups == {i \in 1..Len(reg) : \E j \in 1..(i - 1) : reg[j].name = reg[i].name}
        bad == {i \in 1..Len(reg) :
                  \E k \in 1..Len(reg[i].deps) : reg[i].deps[k] \notin labels}
    IN IF recorded # NoMsg THEN recorded
       ELSE IF dups # {} THEN Msg(DuplicateText, reg[Min(dups)].name, "")
       ELSE IF bad # {}
       THEN LET i == Min(bad)
                k == Min({n \in 1..Len(reg[i].deps) : reg[i].deps[n] \notin labels})
            IN Msg(DanglingText, reg[i].name, reg[i].deps[k])
       ELSE NoMsg

\* The registrations after Add(name, f, deps), given those before it.
ConfigAfterAdd(reg, name, f, deps) ==
    IF name = "" \/ f = NilFunc \/ \E k \in 1..Len(deps) : deps[k] = name
    THEN reg
    ELSE Append(reg, [name |-> name, deps |-> deps])

\* C31 (configuration defects are data-independent): what is registered is
\* a function of the Add calls alone (their labels, the nil-ness of the
\* function, their dependency labels), and whether a call fails validation,
\* and with which defect, is a function of what is registered, the recorded
\* registration defect and the toggle alone; a step that is neither an Add
\* nor a toggle assignment, whatever the functions return, changes none of
\* the three.
C31_DataIndependent ==
    /\ [][lastAdd'.called =>
             /\ Registered' = ConfigAfterAdd(Registered, lastAdd'.name,
                                             lastAdd'.f, lastAdd'.deps)
             /\ addErr' = IF AddDefect(lastAdd'.name, lastAdd'.f, lastAdd'.deps) # NoMsg
                          THEN AddDefect(lastAdd'.name, lastAdd'.f, lastAdd'.deps)
                          ELSE addErr]_vars
    /\ [][~lastAdd'.called =>
             /\ Registered' = Registered
             /\ addErr' = addErr
             /\ (pc = "pass" \/ CallsResolve) =>
                   BehaveUnresolvIsErr' = BehaveUnresolvIsErr]_vars
    /\ [][CallsResolve =>
             LET defect == ConfigDefect(Registered, addErr) IN
             IF defect = NoMsg THEN pc' = "pass"
             ELSE IF addErr # NoMsg \/ BehaveUnresolvIsErr
             THEN pc' = "returned" /\ err' = Errorf(defect)
             ELSE pc' = "halted" /\ fatal' = defect]_vars

\* A call has reported the duplicated label of a record whose function an
\* earlier call had invoked and which had returned Stop.
C31_Witness ==
    /\ pc \in {"returned", "halted"}
    /\ Diagnostic.text = DuplicateText
    /\ Len(q) = 2
    /\ q[1].state = Stop
    /\ q[2].state = UnRun
    /\ Diagnostic.name = q[1].name

\* C32 (Add only appends): an accepted Add puts exactly one record at the
\* end of the queue, in state UnRun, with the label, the function and the
\* dependency labels as given (a label given twice is kept twice); a
\* rejected Add leaves the queue as it was; and no step removes or reorders
\* records or changes a record's label, function or dependency list (an
\* Add changes no state either).
C32_AddOnlyAppends ==
    /\ [][lastAdd'.called =>
             IF AddDefect(lastAdd'.name, lastAdd'.f, lastAdd'.deps) = NoMsg
             THEN q' = Append(q, [name |-> lastAdd'.name, f |-> lastAdd'.f,
                                  deps |-> lastAdd'.deps, state |-> UnRun])
             ELSE q' = q]_vars
    /\ [][/\ Len(q') >= Len(q)
          /\ \A i \in 1..Len(q) :
                /\ q'[i].name = q[i].name
                /\ q'[i].f = q[i].f
                /\ q'[i].deps = q[i].deps]_vars

\* Add has just put a second record, with the same dependency label given
\* twice, behind a record that an earlier call had brought to Done.
C32_Witness ==
    /\ lastAdd.called
    /\ Len(q) = 2
    /\ q[1].state = Satisfied
    /\ q[2].state = UnRun
    /\ Len(q[2].deps) = 2
    /\ q[2].deps[1] = q[2].deps[2]
    /\ q[2].deps = lastAdd.deps

\* C33 (the run operation): a record Add has made is in state UnRun.  When
\* a record whose dependencies are Done is visited in state UnRun or
\* TryAgain, its function is invoked, once, and the value it returns is the
\* record's new state and the result the pass acts on (Satisfied: the pass
\* goes on; TryAgain: the pass goes on, not satisfied; Stop: the call
\* returns ErrQStopped).  When it is visited in state Satisfied, nothing is
\* invoked, the state stays Satisfied and the pass goes on as for a
\* Satisfied result.  No other record changes in the step.
C33_RunOperation ==
    /\ [][(lastAdd'.called /\ Len(q') > Len(q)) => q'[Len(q')].state = UnRun]_vars
    /\ [][(pc = "pass" /\ idx <= Len(q) /\ DepsDone(idx)) =>
             LET s == q[idx].state
                 r == q'[idx].state
             IN /\ \A j \in 1..Len(q) : j # idx => q'[j] = q[j]
                /\ IF s \in {UnRun, TryAgain}
                   THEN /\ invoked' = idx
                        /\ ran' = ran \cup {idx}
                        /\ \E o \in Invoke(q[idx].f, cd) : o.ret = r /\ o.cd = cd'
                        /\ r = Satisfied =>
                              pc' = "pass" /\ idx' = idx + 1 /\ passSatisfied' = passSatisfied
                        /\ r = TryAgain =>
                              pc' = "pass" /\ idx' = idx + 1 /\ ~passSatisfied'
                        /\ r = Stop => pc' = "returned" /\ err' = ErrQStopped
                   ELSE s = Satisfied =>
                           /\ invoked' = 0
                           /\ r = Satisfied
                           /\ cd' = cd
                           /\ ran' = ran
                           /\ pc' = "pass" /\ idx' = idx + 1
                           /\ passSatisfied' = passSatisfied]_vars

\* A closure that answered TryAgain in the first pass has been run again in
\* the second and has returned Satisfied, which is now the record's state.
C33_Witness ==
    /\ pc = "pass"
    /\ Len(q) = 1
    /\ q[1].f = Opaque
    /\ passes = 1
    /\ invoked = 1
    /\ q[1].state = Satisfied
    /\ passSatisfied

\* C34 (independent queues): a step of Add, Process or TryProcess on one
\* InitQ (and an assignment of the toggle) leaves the other InitQ as it
\* was: its records with their states, its recorded registration defect,
\* and the call under way on it; and when the program turns to the other
\* InitQ it finds that InitQ's records and recorded defect as it left them
\* and leaves its own behind unchanged, at whatever point of a call the
\* turn happens.
C34_IndependentQueues ==
    /\ [][ThisId' = ThisId => other' = other]_vars
    /\ [][ThisId' # ThisId =>
             /\ q' = other.q
             /\ addErr' = other.addErr
             /\ other'.q = q
             /\ other'.addErr = addErr]_vars

\* A call is in its second pass on one InitQ, whose record is in TryAgain,
\* while the other InitQ holds a recorded registration defect and a call on
\* it has returned.
C34_Witness ==
    /\ ThisId = 1
    /\ pc = "pass"
    /\ passes = 1
    /\ Len(q) = 1
    /\ q[1].state = TryAgain
    /\ addErr = NoMsg
    /\ other.addErr # NoMsg
    /\ other.pc = "returned"
    /\ other.err # Nil

\* C35 (Done is absorbing and dependency-closed): no step takes a record
\* out of Satisfied (the blocked branch, which writes TryAgain, is never
\* taken on a Satisfied record), and in every state each Satisfied record's
\* dependency labels all name Satisfied records.
C35_DoneAbsorbing ==
    /\ [](\A i \in 1..Len(q) : IsDone(i) => DepsDone(i))
    /\ [][\A i \in 1..Len(q) : IsDone(i) => q'[i].state = Satisfied]_vars
    /\ [][(pc = "pass" /\ idx <= Len(q) /\ IsDone(idx)) =>
             q' = q /\ invoked' = 0]_vars

\* In a later call, a Satisfied record with a dependency has just been
\* visited and left as it was, while a record registered since is waiting.
C35_Witness ==
    /\ pc = "pass"
    /\ Len(q) = 3
    /\ idx = 3
    /\ invoked = 0
    /\ q[2].state = Satisfied
    /\ q[2].deps = <<"a">>
    /\ q[1].state = Satisfied
    /\ q[3].state = UnRun
    /\ ran = {}

\* Some record registered after record i is in state Stop.
StopAfter(i) == \E j \in (i + 1)..Len(q) : q[j].state = Stop

\* A record in state Stop stays in Stop and is not invoked; a call never
\* returns nil while a record is in Stop; a call that reaches a record in
\* Stop returns ErrQStopped there, changing nothing.
StopPersists ==
    /\ [][\A i \in 1..Len(q) :
             q[i].state = Stop => (q'[i].state = Stop /\ invoked' # i)]_vars
    /\ []((pc = "returned" /\ err = Nil) => \A i \in 1..Len(q) : q[i].state # Stop)
    /\ [][(pc = "pass" /\ idx <= Len(q) /\ q[idx].state = Stop) =>
             /\ pc' = "returned"
             /\ err' = ErrQStopped
             /\ invoked' = 0
             /\ q' = q]_vars

\* C36 as stated: Stop persists, and in a later call every record
\* registered before the stopped one that is not Done is invoked again.
\* Violated: such a record is not invoked when one of its dependencies is
\* not Done, or when it is itself in Stop.
C36_Original ==
    /\ StopPersists
    /\ [][(pc = "pass" /\ idx <= Len(q) /\ ~IsDone(idx) /\ StopAfter(idx)) =>
             invoked' = idx]_vars

\* C36 (Stop persists across calls), amended: once a function has returned
\* Stop its record stays in Stop and is never invoked again; no later call
\* returns nil; a later call that reaches the record returns ErrQStopped
\* there; and on its way every record registered before it that is not
\* Done, is not itself in Stop, and has all its dependencies Done is
\* invoked again.
C36_StopPersists ==
    /\ StopPersists
    /\ [][(pc = "pass" /\ idx <= Len(q) /\ ~IsDone(idx) /\ StopAfter(idx)
                      /\ q[idx].state # Stop /\ DepsDone(idx)) =>
             invoked' = idx]_vars

\* A later call has invoked the first record again, which had been left in
\* TryAgain, and is about to reach the second, which is in Stop.
C36_Witness ==
    /\ pc = "pass"
    /\ Len(q) = 2
    /\ idx = 2
    /\ passes = 0
    /\ invoked = 1
    /\ q[1].state = TryAgain
    /\ q[2].state = Stop
    /\ 1 \notin everDone

\* The inner loop has visited every record: a pass is complete.
PassComplete == pc = "pass" /\ idx > Len(q)

\* The call has ended at the end of a complete pass: it returned nil, or it
\* declared the queue unsolvable.
EndedAfterPass == (pc = "returned" /\ err = Nil) \/ DeclaredUnsolvable

\* C37 (states after a pass): when a pass is complete, and when a call has
\* ended at the end of one, every record is in state Satisfied or TryAgain,
\* none in UnRun or Stop; so when the pass budget is exhausted the records
\* in TryAgain, which are the ones reported, are exactly the records that
\* are not Satisfied.
C37_StatesAfterPass ==
    /\ (PassComplete \/ EndedAfterPass) =>
          \A i \in 1..Len(q) : q[i].state \in {Satisfied, TryAgain}
    /\ Exhausted => remaining = NotDoneLabels(Len(q))

\* The last pass of the budget is complete: the first record, never
\* invoked, is in TryAgain because the record it depends on, also in
\* TryAgain, has not completed.
C37_Witness ==
    /\ Exhausted
    /\ Len(q) = 2
    /\ q[1].state = TryAgain
    /\ q[2].state = TryAgain
    /\ q[1].deps = <<q[2].name>>
    /\ ran = {2}

\* C38 (the non-convergence error is never empty): whenever a call has
\* returned a QUnresolvable, its list holds at least one label and every
\* label in it is the label of a registered record.
C38_UnresolvedNotEmpty ==
    (pc = "returned" /\ err.type = "QUnresolvable") =>
        /\ Len(err.unsat) >= 1
        /\ \A k \in 1..Len(err.unsat) :
              \E i \in 1..Len(q) : q[i].name = err.unsat[k]

\* TryProcess has returned a QUnresolvable that lists the one record, of
\* three, that is not Done.
C38_Witness ==
    /\ pc = "returned"
    /\ err.type = "QUnresolvable"
    /\ Len(q) = 3
    /\ Len(err.unsat) = 1
    /\ err.unsat[1] = q[2].name
    /\ IsDone(1)
    /\ IsDone(3)

InDependencyOrder ==
    \A i \in 1..Len(q) :
        /\ q[i].f = ReturnSatisfied
        /\ \A k \in 1..Len(q[i].deps) :
              \E j \in 1..(i - 1) : q[j].name = q[i].deps[k]

\* C40 (no confirmation pass): a pass at whose end every record is Done has
\* found the queue satisfied, and the call returns nil at the end of that
\* pass, without another one; it does not return nil at the end of a pass
\* that leaves a record not Done.  In particular a call on a queue
\* registered in dependency order returns nil after one pass, in which each
\* record not Done before has been invoked once (a record completed earlier
\* in the pass unblocks its dependents later in the same pass).
C40_NoConfirmationPass ==
    /\ []((PassComplete /\ AllDone) => passSatisfied)
    /\ [][(PassComplete /\ AllDone) =>
             (pc' = "returned" /\ err' = Nil /\ passes' = passes + 1)]_vars
    /\ [][(PassComplete /\ ~AllDone) => ~(pc' = "returned" /\ err' = Nil)]_vars
    /\ []((pc = "returned" /\ InDependencyOrder) =>
             /\ err = Nil
             /\ passes = 1
             /\ \A i \in 1..Len(q) :
                   /\ IsDone(i)
                   /\ i \in everDone
                   /\ calls[i] = IF i \in ran THEN 1 ELSE 0)

\* A chain of three records registered in dependency order has converged
\* in one pass, each record invoked once.
C40_Witness ==
    /\ pc = "returned"
    /\ err = Nil
    /\ passes = 1
    /\ Len(q) = 3
    /\ InDependencyOrder
    /\ q[2].deps = <<"a">>
    /\ q[3].deps = <<"b">>
    /\ calls = <<1, 1, 1>>

====
